---- MODULE Spec2Model ----
(***************************************************************************)
(* Metadata-key construction and metadata lookup of jackson-wasm           *)
(* (src/jackson-wasm/src/util.rs).                                         *)
(*                                                                         *)
(* Strings are sequences of one-character strings, so that concatenation,  *)
(* prefix tests and substring tests are computed as the code computes      *)
(* them.  Option<T> is the empty tuple (None) or a one-element tuple.      *)
(* An exported call is one step: it leaves its arguments and outcome in     *)
(* `call` until the caller takes the result.  The walk of the prototype     *)
(* chain is also modelled one loop iteration at a time (SpecWalk), on       *)
(* prototype relations that need not end.                                   *)
(***************************************************************************)
EXTENDS Integers, Sequences, FiniteSets, TLC

VARIABLES
    call,      \* the invocation in progress or just finished: arguments and outcome
    enabled,   \* the DecoratorOptions objects of the JS heap: object |-> its `enabled` field
    imap,      \* context._internalDecorators: NoMap, or the set of types that have an entry
    proto,     \* Reflect.getPrototypeOf on the types: type |-> parent type or Null
    walk       \* position of a running find_metadata_by_metadata_key_with_context

vars == <<call, enabled, imap, proto, walk>>

-----------------------------------------------------------------------------
(* Bounds of the model *)

\* longest string drawn for a key, group, prefix or suffix of the key builder
MaxLen == 1
\* number of types on the prototype chain of the target
MaxChain == 3
\* longest withContextGroups / contextGroups list
MaxGroups == 1
\* most DecoratorOptions objects registered under the key of a walk
MaxObjs == 2

-----------------------------------------------------------------------------
(* Strings *)

\* Option<T>: None, or Some(x) holding one value
None == <<>>

Some(x) == <<x>>

IsSome(opt) == opt # <<>>

Unwrap(opt) == opt[1]

Letters ==
    {"a","b","c","d","e","f","g","h","i","j","k","l","m","n","o","p","q","r","s","t",
     "u","v","w","x","y","z","A","B","C","D","E","F","G","H","I","J","K","L","M","N",
     "O","P","Q","R","S","T","U","V","W","X","Y","Z"}

Digits == {"0","1","2","3","4","5","6","7","8","9"}

\* the class \w of a JS regular expression
WordChars == Letters \cup Digits \cup {"_"}

\* RegExp::new(r"^[\w]+$", "").test(s)
RegExpTest(s) == Len(s) > 0 /\ \A i \in 1..Len(s) : s[i] \in WordChars

\* str::starts_with
StartsWith(s, p) == Len(p) <= Len(s) /\ SubSeq(s, 1, Len(p)) = p

\* str::contains
Contains(s, p) == \E i \in 0..(Len(s) - Len(p)) : SubSeq(s, i + 1, i + Len(p)) = p

Colon == <<":">>

Jackson == <<"j","a","c","k","s","o","n",":">>

DEFAULT_CONTEXT_GROUP == <<"d","e","f","a","u","l","t">>

\* Option::unwrap_or
UnwrapOr(opt, dflt) == IF IsSome(opt) THEN Unwrap(opt) ELSE dflt

-----------------------------------------------------------------------------
(* KeyBuilder *)

\* MakeMetadataKeyWithContextOptions::new
MakeMetadataKeyWithContextOptions(contextGroup, prefix, suffix) ==
    [contextGroup |-> contextGroup, prefix |-> prefix, suffix |-> suffix]

\* Result<String, JsValue>: Ok(string), or the Err carrying the "Invalid context
\* group name found!" message (its text is not modelled)
Ok(v) == [ok |-> TRUE, val |-> v]

InvalidContextGroup == [ok |-> FALSE, val |-> <<>>]

\* a plausible slip: the suffix is left out of the key
make_metadata_key_with_context_NoSuffix(key, options) ==
    IF IsSome(options.contextGroup) /\ ~RegExpTest(Unwrap(options.contextGroup))
    THEN InvalidContextGroup
    ELSE LET context_group == UnwrapOr(options.contextGroup, DEFAULT_CONTEXT_GROUP)
             prefix == UnwrapOr(options.prefix, <<>>)
         IN  Ok(Jackson \o context_group \o Colon \o prefix
                \o (IF prefix # <<>> THEN Colon ELSE <<>>)
                \o key)

\* a plausible slip: an empty context group is taken for an absent one
make_metadata_key_with_context_EmptyIsDefault(key, options) ==
    IF IsSome(options.contextGroup) /\ Unwrap(options.contextGroup) # <<>>
       /\ ~RegExpTest(Unwrap(options.contextGroup))
    THEN InvalidContextGroup
    ELSE LET context_group ==
                 IF options.contextGroup \in {None, Some(<<>>)}
                 THEN DEFAULT_CONTEXT_GROUP ELSE Unwrap(options.contextGroup)
             prefix == UnwrapOr(options.prefix, <<>>)
             suffix == UnwrapOr(options.suffix, <<>>)
         IN  Ok(Jackson \o context_group \o Colon \o prefix
                \o (IF prefix # <<>> THEN Colon ELSE <<>>)
                \o key
                \o (IF suffix # <<>> THEN Colon \o suffix ELSE <<>>))

make_metadata_key_with_context(key, options) ==
    IF IsSome(options.contextGroup) /\ ~RegExpTest(Unwrap(options.contextGroup))
    THEN InvalidContextGroup
    ELSE LET context_group == UnwrapOr(options.contextGroup, DEFAULT_CONTEXT_GROUP)
             prefix == UnwrapOr(options.prefix, <<>>)
             suffix == UnwrapOr(options.suffix, <<>>)
         IN  Ok(Jackson \o context_group \o Colon \o prefix
                \o (IF prefix # <<>> THEN Colon ELSE <<>>)
                \o key
                \o (IF suffix # <<>> THEN Colon \o suffix ELSE <<>>))

\* Result::ok().unwrap(): the value, or a panic
Unwrapped(v) == [panic |-> FALSE, val |-> v]

Panic == [panic |-> TRUE, val |-> <<>>]

OkUnwrap(r) == IF r.ok THEN Unwrapped(r.val) ELSE Panic

\* context_groups.iter().map(..).collect(): the keys in order, or the panic of the
\* first unwrap that fails
RECURSIVE MapGroups(_, _, _, _)
MapGroups(key, context_groups, prefix, suffix) ==
    IF context_groups = <<>> THEN Unwrapped(<<>>)
    ELSE LET k == OkUnwrap(make_metadata_key_with_context(key,
                      MakeMetadataKeyWithContextOptions(Some(Head(context_groups)),
                                                        prefix, suffix)))
             rest == MapGroups(key, Tail(context_groups), prefix, suffix)
         IN  IF k.panic \/ rest.panic THEN Panic ELSE Unwrapped(<<k.val>> \o rest.val)

make_metadata_keys_with_context(key, options) ==
    IF IsSome(options.contextGroups)
    THEN MapGroups(key, Unwrap(options.contextGroups), options.prefix, options.suffix)
    ELSE LET k == OkUnwrap(make_metadata_key_with_context(key,
                      MakeMetadataKeyWithContextOptions(None, options.prefix, options.suffix)))
         IN  IF k.panic THEN Panic ELSE Unwrapped(<<k.val>>)

-----------------------------------------------------------------------------
(* The JS heap the resolver reads: types, decorator objects, the metadata store *)

\* the classes of the prototype chain, the target first; Null ends the chain
Types == 1..MaxChain

Null == 0

\* a DecoratorOptions object, named by the place it is registered at: in the
\* reflect-metadata store ("store", under a key, a target and a property key) or
\* in an entry of context._internalDecorators ("imap", under a type and a key)
Obj(at, key, type, member) == [at |-> at, key |-> key, type |-> type, member |-> member]

\* the JS value undefined
Undefined == Obj("undefined", <<>>, Null, None)

\* JsValue::is_undefined
is_undefined(v) == v = Undefined

\* the `enabled` field of a DecoratorOptions: absent, or a boolean
EnabledVals == {"absent", "true", "false"}

\* context._internalDecorators is absent
NoMap == {Null}

\* Reflect.getMetadata(metadataKey, target, propertyKey) and, with no property
\* key, Reflect.getMetadata(metadataKey, target): null and undefined come back as None
Reflect_getMetadata(metadataKey, target, property_key) ==
    LET o == Obj("store", metadataKey, target, property_key)
    IN  IF o \in DOMAIN enabled THEN Some(o) ELSE None

\* js_sys::Reflect::get(parent, "name").is_ok(): Reflect.get throws on a non-object
parent_name_is_ok(parent) == parent # Null

\* js_sys::Reflect::get_prototype_of(parent): Err on a non-object
get_prototype_of(parent) ==
    IF parent = Null THEN [ok |-> FALSE, val |-> Null] ELSE [ok |-> TRUE, val |-> proto[parent]]

-----------------------------------------------------------------------------
(* MetadataResolver: find_metadata_by_metadata_key_with_context *)

\* one store lookup, as the log of lookups records it
LookupOf(metadataKey, target, property_key) ==
    [key |-> metadataKey, target |-> target, member |-> property_key]

\* the first statement of the function: the raw store lookup (lines 135-149)
StoreLookup(metadata_key_with_context, target, property_key) ==
    Reflect_getMetadata(metadata_key_with_context, target, property_key)

\* the guarded block of one loop iteration (lines 156-180): the value of
\* json_decorator_options after it
LoopLookup(json, parent, metadata_key_with_context, property_key, has_context) ==
    IF json = None /\ ~IsSome(property_key) /\ has_context /\ imap # NoMap
    THEN \* Map.get(parent) is undefined for a type without entry, and Reflect.get
         \* on undefined throws: Err(_) => None
         IF parent \notin imap THEN None
         \* Reflect.get(entry, key) is Ok(value), undefined included: Some(value)
         ELSE LET o == Obj("imap", metadata_key_with_context, parent, None)
              IN  IF o \in DOMAIN enabled THEN Some(o) ELSE Some(Undefined)
    ELSE json

\* the while loop (lines 155-187), on a chain that ends
RECURSIVE WalkLoop(_, _, _, _, _)
WalkLoop(json, parent, metadata_key_with_context, property_key, has_context) ==
    IF json = None /\ parent_name_is_ok(parent)
    THEN LET j == LoopLookup(json, parent, metadata_key_with_context,
                             property_key, has_context)
             prototype == get_prototype_of(parent)
         IN  IF ~prototype.ok THEN j
             ELSE WalkLoop(j, prototype.val, metadata_key_with_context,
                           property_key, has_context)
    ELSE json

\* the outcome of a lookup: a panic, or json_decorator_options with the store
\* lookups made on the way
Found(json, lookups) == [panic |-> FALSE, json |-> json, lookups |-> lookups]

Panicked(lookups) == [panic |-> TRUE, json |-> None, lookups |-> lookups]

find_metadata_by_metadata_key_with_context(metadata_key_with_context, target, property_key, context) ==
    LET json == StoreLookup(metadata_key_with_context, target, property_key)
        lookups == <<LookupOf(metadata_key_with_context, target, property_key)>>
    IN  \* context.unwrap()
        IF ~IsSome(context) THEN Panicked(lookups)
        ELSE Found(WalkLoop(json, target, metadata_key_with_context, property_key,
                            IsSome(context)), lookups)

-----------------------------------------------------------------------------
(* MetadataResolver: find_metadata and get_metadata *)

\* a resolution context: withContextGroups (Option of a list of group names) and
\* decoratorsEnabled (Option of a table, the list of its <<key, value>> entries in
\* Object.keys order); its _internalDecorators is the variable imap
Context(withContextGroups, decoratorsEnabled) ==
    [withContextGroups |-> withContextGroups, decoratorsEnabled |-> decoratorsEnabled]

\* the for loop of find_metadata over groups[i..] (lines 275-291)
RECURSIVE FindInGroups(_, _, _, _, _, _)
FindInGroups(groups, metadata_key, target, property_key, context, lookups) ==
    IF groups = <<>> THEN Found(None, lookups)
    ELSE LET metadata_key_with_context ==
                 OkUnwrap(make_metadata_key_with_context(metadata_key,
                     MakeMetadataKeyWithContextOptions(Some(Head(groups)), None, None)))
         IN  IF metadata_key_with_context.panic THEN Panicked(lookups)
             ELSE LET r == find_metadata_by_metadata_key_with_context(
                               metadata_key_with_context.val, target, property_key,
                               Some(context))
                  IN  IF r.panic THEN Panicked(lookups \o r.lookups)
                      ELSE IF IsSome(r.json) THEN Found(r.json, lookups \o r.lookups)
                      ELSE FindInGroups(Tail(groups), metadata_key, target, property_key,
                                        context, lookups \o r.lookups)

find_metadata(metadata_key, target, property_key, context) ==
    LET context_groups_with_default ==
            Append(UnwrapOr(context.withContextGroups, <<>>), DEFAULT_CONTEXT_GROUP)
    IN  FindInGroups(context_groups_with_default, metadata_key, target, property_key,
                     context, <<>>)

\* a plausible slip: a namespaced key is expanded over the context groups as well
Locate_AlwaysExpand(metadata_key, target, property_key, context) ==
    find_metadata(metadata_key, target, property_key, context)

\* the located decorator of get_metadata (lines 303-312)
Locate(metadata_key, target, property_key, context) ==
    IF StartsWith(metadata_key, Jackson)
    THEN find_metadata_by_metadata_key_with_context(metadata_key, target, property_key,
                                                    Some(context))
    ELSE find_metadata(metadata_key, target, property_key, context)

\* the closure of decorator_keys.iter().find (lines 321-331) on one table key
KeyMatches(metadata_key, key_str) ==
    IF StartsWith(metadata_key, Jackson)
    THEN Contains(metadata_key, Colon \o key_str)
    ELSE StartsWith(metadata_key, key_str)

\* a plausible slip: the last matching entry is taken instead of the first
RECURSIVE FindDecoratorKey_Last(_, _)
FindDecoratorKey_Last(metadata_key, table) ==
    IF table = <<>> THEN None
    ELSE IF KeyMatches(metadata_key, table[Len(table)][1]) THEN Some(table[Len(table)])
    ELSE FindDecoratorKey_Last(metadata_key, SubSeq(table, 1, Len(table) - 1))

\* decorator_keys.iter().find(..): the first entry of table[i..] whose key matches
RECURSIVE FindDecoratorKey(_, _)
FindDecoratorKey(metadata_key, table) ==
    IF table = <<>> THEN None
    ELSE IF KeyMatches(metadata_key, Head(table)[1]) THEN Some(Head(table))
    ELSE FindDecoratorKey(metadata_key, Tail(table))

\* Boolean::is_type_of
is_boolean(v) == v \in {"true", "false"}

\* the value set_enabled is called with (lines 319-342), if it is called
Override(metadata_key, decorators_enabled) ==
    IF ~IsSome(decorators_enabled) THEN None
    ELSE LET decorator_key == FindDecoratorKey(metadata_key, Unwrap(decorators_enabled))
         IN  IF IsSome(decorator_key) /\ is_boolean(Unwrap(decorator_key)[2])
             THEN Some(Unwrap(decorator_key)[2])
             ELSE None

\* what get_metadata does (lines 303-348): the located value, the value written to
\* its `enabled` field (if any), and the value returned
GetMetadataOutcome(metadata_key, target, property_key, context) ==
    LET found == Locate(metadata_key, target, property_key, context)
        located == found.json
        decorator == IsSome(located) /\ ~is_undefined(Unwrap(located))
        declared == IF decorator THEN enabled[Unwrap(located)] ELSE "absent"
        written == IF decorator /\ ~found.panic
                   THEN Override(metadata_key, context.decoratorsEnabled)
                   ELSE None
        final == UnwrapOr(written, declared)
    IN  [panic |-> found.panic, located |-> located, declared |-> declared,
         written |-> written, lookups |-> found.lookups,
         result |-> IF decorator /\ ~found.panic /\ final = "true"
                    THEN Unwrap(located) ELSE Undefined]

-----------------------------------------------------------------------------
(* Inputs *)

\* the sequences over S of length at most n
SeqsUpTo(S, n) == UNION {[1..k -> S] : k \in 0..n}

\* Option<T> over the values of S
OptionOf(S) == {None} \cup {Some(x) : x \in S}

\* characters of the strings given to the key builder: a word character and two
\* characters outside \w, one of them the separator
Alphabet == {"a", ":", "-"}

Strings == SeqsUpTo(Alphabet, MaxLen)

\* the context group names given to the key builder
GroupStrings == Strings \cup {DEFAULT_CONTEXT_GROUP}

\* the logical key, the custom context group and the property key of the resolver
LogicalKey == <<"X", "y">>

GroupG == <<"g">>

PropertyKey == <<"m">>

GroupNames == {GroupG, DEFAULT_CONTEXT_GROUP}

\* the concrete key of the logical key in a group
KeyIn(group) ==
    make_metadata_key_with_context(LogicalKey,
        MakeMetadataKeyWithContextOptions(Some(group), None, None)).val

ConcreteKeys == {KeyIn(g) : g \in GroupNames}

\* the metadata_key arguments: the plain logical key and a namespaced key
MetadataKeys == {LogicalKey, KeyIn(DEFAULT_CONTEXT_GROUP)}

PropertyKeys == OptionOf({PropertyKey})

\* the target of the calls: the first type of the chain
Target == 1

\* the keys and values of decoratorsEnabled tables: a fragment of the logical
\* key, the name of a context group; booleans and a value that is no boolean
TableKeys == {<<"X">>, DEFAULT_CONTEXT_GROUP}

TableVals == {"true", "false", "str"}

\* Object.keys lists each key once
Tables ==
    {t \in SeqsUpTo(TableKeys \X TableVals, Cardinality(TableKeys)) :
        \A i, j \in 1..Len(t) : i # j => t[i][1] # t[j][1]}

Contexts ==
    {Context(g, d) : g \in OptionOf(SeqsUpTo(GroupNames, MaxGroups)), d \in OptionOf(Tables)}

\* the places a DecoratorOptions object can be registered at
StoreObjs == {Obj("store", k, Target, m) : k \in ConcreteKeys, m \in PropertyKeys}

ImapObjs == {Obj("imap", k, t, None) : k \in ConcreteKeys, t \in Types}

\* the prototype chain 1 -> 2 -> .. -> MaxChain -> null
Chain == [t \in Types |-> IF t = MaxChain THEN Null ELSE t + 1]

\* the heaps with the decorators of one of the sets of `registered` in them, each
\* with any `enabled` field; an internal map (if any) has an entry for every type
\* that registers a decorator in it, and possibly for other types
HeapsOf(registered) ==
    {h \in [en : UNION {[S -> EnabledVals] : S \in registered},
            im : {NoMap} \cup SUBSET Types] :
        \A o \in DOMAIN h.en : o.at = "imap" => h.im # NoMap /\ o.type \in h.im}

\* the heaps get_metadata is run on: the decorator is registered nowhere, or at
\* one place, for one group
Heaps == HeapsOf({{}} \cup {{o} : o \in StoreObjs \cup ImapObjs})

\* the prototype relations the walk is run on: a chain of 1..MaxChain types from
\* the target, its last type with no prototype (Null) or, as a Proxy's
\* getPrototypeOf trap can answer, with an earlier type of the chain as prototype
Protos ==
    UNION {{[t \in Types |-> IF t < top THEN t + 1 ELSE IF t = top THEN back ELSE Null] :
               back \in {Null} \cup 1..(top - 1)} : top \in Types}

\* the key the walk looks up, and the heaps it is run on: up to MaxObjs
\* decorators registered under that key
WalkKey == KeyIn(DEFAULT_CONTEXT_GROUP)

WalkHeaps ==
    {h \in HeapsOf({S \in SUBSET {o \in StoreObjs \cup ImapObjs : o.key = WalkKey} :
                        Cardinality(S) <= MaxObjs}) :
        \A o \in DOMAIN h.en : h.en[o] = "true"}

-----------------------------------------------------------------------------
(* Invocations *)

Idle == [op |-> "idle"]

NotWalking == [pc |-> "idle"]

\* make_metadata_key_with_context(key, options), called from JS
MakeKey(key, contextGroup, prefix, suffix) ==
    /\ call = Idle
    /\ LET options == MakeMetadataKeyWithContextOptions(contextGroup, prefix, suffix)
       IN  call' = [op |-> "make_metadata_key_with_context", key |-> key,
                    options |-> options,
                    result |-> make_metadata_key_with_context(key, options)]
    /\ UNCHANGED <<enabled, imap, proto, walk>>

\* make_metadata_keys_with_context(key, options), called from JS
MakeKeys(key, contextGroups, prefix, suffix) ==
    /\ call = Idle
    /\ LET options == [contextGroups |-> contextGroups, prefix |-> prefix,
                       suffix |-> suffix]
       IN  call' = [op |-> "make_metadata_keys_with_context", key |-> key,
                    options |-> options,
                    result |-> make_metadata_keys_with_context(key, options)]
    /\ UNCHANGED <<enabled, imap, proto, walk>>

\* get_metadata(metadata_key, target, property_key, context), called from JS
GetMetadata(metadata_key, target, property_key, context) ==
    /\ call = Idle
    /\ LET o == GetMetadataOutcome(metadata_key, target, property_key, context)
       IN  /\ call' = [op |-> "get_metadata", metadata_key |-> metadata_key,
                       target |-> target, property_key |-> property_key,
                       context |-> context, before |-> enabled, outcome |-> o]
           \* decorator_options.set_enabled(enabled.into())
           /\ enabled' = IF IsSome(o.written)
                         THEN [enabled EXCEPT ![Unwrap(o.located)] = Unwrap(o.written)]
                         ELSE enabled
    /\ UNCHANGED <<imap, proto, walk>>

\* the caller takes the value returned
Return ==
    /\ call # Idle
    /\ call' = Idle
    /\ UNCHANGED <<enabled, imap, proto, walk>>

-----------------------------------------------------------------------------
(* The key builder alone *)

InitKey ==
    /\ call = Idle
    /\ enabled = <<>>
    /\ imap = NoMap
    /\ proto = Chain
    /\ walk = NotWalking

NextKey ==
    \/ /\ call = Idle
       /\ \E key \in Strings, g \in OptionOf(GroupStrings),
             prefix, suffix \in OptionOf(Strings) :
             MakeKey(key, g, prefix, suffix)
    \/ /\ call = Idle
       /\ \E key \in Strings,
             gs \in OptionOf(SeqsUpTo(GroupNames \cup {<<"-">>}, MaxGroups)),
             prefix, suffix \in OptionOf(Strings) :
             MakeKeys(key, gs, prefix, suffix)
    \/ Return

SpecKey == InitKey /\ [][NextKey]_vars

-----------------------------------------------------------------------------
(* The resolver *)

Init ==
    /\ call = Idle
    /\ \E h \in Heaps : enabled = h.en /\ imap = h.im
    /\ proto = Chain
    /\ walk = NotWalking

Next ==
    \/ /\ call = Idle
       /\ \E k \in MetadataKeys, m \in PropertyKeys, c \in Contexts :
             GetMetadata(k, Target, m, c)
    \/ Return

Spec == Init /\ [][Next]_vars

-----------------------------------------------------------------------------
(* find_metadata_by_metadata_key_with_context, one loop iteration at a time *)

\* lines 130-153: the store lookup, context.unwrap(), parent = target
WalkCall(metadata_key_with_context, target, property_key, context) ==
    /\ walk = NotWalking
    /\ walk' = [pc |-> IF IsSome(context) THEN "loop" ELSE "panic",
                json |-> StoreLookup(metadata_key_with_context, target, property_key),
                parent |-> target,
                key |-> metadata_key_with_context, target |-> target,
                property_key |-> property_key, has_context |-> IsSome(context)]
    /\ UNCHANGED <<call, enabled, imap, proto>>

\* the loop condition of line 155
WalkCondition == walk.json = None /\ parent_name_is_ok(walk.parent)

\* lines 155-187: one iteration of the while loop
WalkStep ==
    /\ walk.pc = "loop"
    /\ WalkCondition
    /\ LET j == LoopLookup(walk.json, walk.parent, walk.key, walk.property_key,
                           walk.has_context)
           prototype == get_prototype_of(walk.parent)
       IN  walk' = IF ~prototype.ok
                   THEN [walk EXCEPT !.pc = "done", !.json = j]
                   ELSE [walk EXCEPT !.json = j, !.parent = prototype.val]
    /\ UNCHANGED <<call, enabled, imap, proto>>

\* line 189: the loop is left and json_decorator_options is returned
WalkExit ==
    /\ walk.pc = "loop"
    /\ ~WalkCondition
    /\ walk' = [walk EXCEPT !.pc = "done"]
    /\ UNCHANGED <<call, enabled, imap, proto>>

\* the caller takes the result, or the panic unwinds
WalkReturn ==
    /\ walk.pc \in {"done", "panic"}
    /\ walk' = NotWalking
    /\ UNCHANGED <<call, enabled, imap, proto>>

InitWalk ==
    /\ call = Idle
    /\ \E h \in WalkHeaps : enabled = h.en /\ imap = h.im
    /\ proto \in Protos
    /\ walk = NotWalking

NextWalk ==
    \/ /\ walk = NotWalking
       /\ \E m \in PropertyKeys, c \in OptionOf({Context(None, None)}) :
             WalkCall(WalkKey, Target, m, c)
    \/ WalkStep
    \/ WalkExit
    \/ WalkReturn

SpecWalk == InitWalk /\ [][NextWalk]_vars

\* the loop runs on once entered: nothing else is scheduled on the JS thread
FairSpecWalk == SpecWalk /\ WF_vars(WalkStep) /\ WF_vars(WalkExit)

-----------------------------------------------------------------------------
(* Claims on the key builder, under SpecKey *)

\* the segments joined by ":"
RECURSIVE JoinColon(_)
JoinColon(segs) ==
    IF Len(segs) = 1 THEN segs[1] ELSE segs[1] \o Colon \o JoinColon(Tail(segs))

\* an optional qualifier as a list of segments: none when absent or empty
Segment(opt) == IF IsSome(opt) /\ Unwrap(opt) # <<>> THEN <<Unwrap(opt)>> ELSE <<>>

MadeKey == call.op = "make_metadata_key_with_context"

\* C1: buildKey fails with the validation error exactly when a context group is
\* supplied that is not a non-empty string of word characters (the empty string
\* included), and otherwise returns "jackson", the supplied group or the default
\* group, the prefix if non-empty, the logical key and the suffix if non-empty,
\* joined by ":".
C1_BuildKeyContract ==
    MadeKey =>
        LET group == call.options.contextGroup
            invalid == IsSome(group)
                       /\ ~(Unwrap(group) \in Seq(WordChars) /\ Len(Unwrap(group)) >= 1)
        IN  IF invalid THEN ~call.result.ok
            ELSE /\ call.result.ok
                 /\ call.result.val =
                        JoinColon(<<SubSeq(Jackson, 1, 7),
                                    IF IsSome(group) THEN Unwrap(group)
                                    ELSE DEFAULT_CONTEXT_GROUP>>
                                  \o Segment(call.options.prefix)
                                  \o <<call.key>>
                                  \o Segment(call.options.suffix))

\* a key built with the group absent and with a prefix and a suffix:
\* "jackson:default:a:a:-"
C1_Witness ==
    /\ MadeKey
    /\ call.key = <<"a">>
    /\ call.options = MakeMetadataKeyWithContextOptions(None, Some(<<"a">>), Some(<<"-">>))
    /\ call.result = Ok(Jackson \o DEFAULT_CONTEXT_GROUP \o <<":", "a", ":", "a", ":", "-">>)

\* the input tuples of buildKey
KeyTuples ==
    {<<k, MakeMetadataKeyWithContextOptions(g, pre, suf)>> :
        k \in Strings,
        g \in OptionOf(GroupStrings), pre \in OptionOf(Strings), suf \in OptionOf(Strings)}

Separated(t) ==
    /\ IsSome(t[2].contextGroup)
    /\ Segment(t[2].prefix) # <<>>
    /\ Segment(t[2].suffix) # <<>>
    /\ \A part \in {t[1], Unwrap(t[2].prefix), Unwrap(t[2].suffix)} :
          \A i \in 1..Len(part) : part[i] # ":"

SeparatedTuples == {t \in KeyTuples : Separated(t)}

C5_KeysForGroups ==
    call.op = "make_metadata_keys_with_context" =>
        LET groups == UnwrapOr(call.options.contextGroups, <<>>)
            keyOf(g) == make_metadata_key_with_context(call.key,
                            MakeMetadataKeyWithContextOptions(g, call.options.prefix,
                                                              call.options.suffix)).val
        IN  IF groups = <<>>
            THEN call.result = Unwrapped(<<keyOf(None)>>)
            ELSE (\A i \in 1..Len(groups) : RegExpTest(groups[i]))
                 => call.result = Unwrapped([i \in 1..Len(groups) |-> keyOf(Some(groups[i]))])

-----------------------------------------------------------------------------
(* What the lookups are claimed to return *)

\* the types from t up the prototype relation, each once
RECURSIVE ChainFrom(_, _)
ChainFrom(t, n) ==
    IF t = Null \/ n = 0 THEN <<>> ELSE <<t>> \o ChainFrom(proto[t], n - 1)

\* the store's value for key K if it has one; else, for a type-level lookup with
\* an internal map, the value registered for K at the nearest type of the chain
\* whose entry contains K; else nothing
Registered(K, target, property_key) ==
    LET chain == ChainFrom(target, MaxChain)
        hits == {i \in 1..Len(chain) :
                    Obj("imap", K, chain[i], None) \in DOMAIN enabled}
    IN  IF Obj("store", K, target, property_key) \in DOMAIN enabled
        THEN Some(Obj("store", K, target, property_key))
        ELSE IF property_key = None /\ imap # NoMap /\ hits # {}
        THEN Some(Obj("imap", K,
                      chain[CHOOSE i \in hits : \A j \in hits : i <= j], None))
        ELSE None

-----------------------------------------------------------------------------
(* Claims on the walk, under SpecWalk and FairSpecWalk *)

\* C3: resolveByConcreteKey returns the store's value when the store lookup hits;
\* otherwise, for a type-level lookup with an internal map, the value registered
\* for the key at the nearest type of the chain whose entry contains the key,
\* wherever entries without the key lie; otherwise nothing.
C3_NearestAncestor ==
    walk.pc = "done" =>
        \* an undefined result counts as nothing found
        (IF walk.json = Some(Undefined) THEN None ELSE walk.json)
            = Registered(walk.key, walk.target, walk.property_key)

\* C10: once the walk is entered it ends, whatever the prototype relation is.
C10_WalkTerminates == (walk.pc = "loop") ~> (walk.pc = "done")

-----------------------------------------------------------------------------
(* Claims on get_metadata, under Spec *)

GotMetadata == call.op = "get_metadata"

Namespaced == StartsWith(call.metadata_key, Jackson)

\* the decoratorsEnabled table of the call (empty when absent)
TableOfCall == UnwrapOr(call.context.decoratorsEnabled, <<>>)

\* a table key matches the key of the call: ":" and the table key occur in a
\* namespaced key, a plain key starts with the table key
TableKeyMatches(i) ==
    LET k == TableOfCall[i][1]
        n == Len(k)
        key == call.metadata_key
    IN  IF Namespaced
        THEN \E at \in 1..Len(key) :
                /\ key[at] = ":"
                /\ at + n <= Len(key)
                /\ \A j \in 1..n : key[at + j] = k[j]
        ELSE n <= Len(key) /\ \A j \in 1..n : key[j] = k[j]

MatchingEntries == {i \in 1..Len(TableOfCall) : TableKeyMatches(i)}

\* the located value is a decorator (not nothing, not undefined)
LocatedDecorator ==
    IsSome(call.outcome.located) /\ Unwrap(call.outcome.located) # Undefined

\* the effective `enabled` flag of the located decorator: the boolean of the
\* first matching table entry if there is one, else the decorator's own field
EffectiveEnabled ==
    LET first == CHOOSE i \in MatchingEntries : \A j \in MatchingEntries : i <= j
    IN  IF MatchingEntries # {} /\ TableOfCall[first][2] \in {"true", "false"}
        THEN TableOfCall[first][2]
        ELSE call.before[Unwrap(call.outcome.located)]

C6_NamespacedShortCircuit ==
    GotMetadata /\ Namespaced =>
        call.outcome.lookups =
            <<LookupOf(call.metadata_key, call.target, call.property_key)>>

\* a namespaced key resolved in a context with an active custom group
C6_Witness ==
    /\ GotMetadata
    /\ Namespaced
    /\ call.context.withContextGroups = Some(<<GroupG>>)
    /\ Len(call.outcome.lookups) = 1
    /\ call.outcome.result # Undefined

\* C2: for a plain key, if no active group other than the default yields a value
\* and the default group has a registered value whose `enabled` is true and no
\* table entry overrides it, resolve returns the default group's value.
C2_DefaultGroupFallback ==
    GotMetadata /\ ~Namespaced =>
        LET active == UnwrapOr(call.context.withContextGroups, <<>>)
            keyOf(g) == Jackson \o g \o Colon \o call.metadata_key
            value(g) == Registered(keyOf(g), call.target, call.property_key)
            dflt == value(DEFAULT_CONTEXT_GROUP)
        IN  /\ \A i \in 1..Len(active) :
                  active[i] # DEFAULT_CONTEXT_GROUP => value(active[i]) = None
            /\ IsSome(dflt)
            /\ call.before[Unwrap(dflt)] = "true"
            /\ MatchingEntries = {}
            => call.outcome.result = Unwrap(dflt)

\* the part of a namespaced key after its context group: ":" and the rest
AfterGroup(key) ==
    LET rest == SubSeq(key, Len(Jackson) + 1, Len(key))
        colon == CHOOSE i \in 1..Len(rest) :
                     rest[i] = ":" /\ \A j \in 1..(i - 1) : rest[j] # ":"
    IN  SubSeq(rest, colon, Len(rest))

\* C8: for a namespaced key, the table overrides the `enabled` field only if one
\* of its keys matches in the part after the context group; a key that occurs in
\* the group segment alone never triggers the override.
C8_OverrideBySegment ==
    GotMetadata /\ Namespaced /\ IsSome(call.outcome.written) =>
        \E i \in 1..Len(TableOfCall) :
            Contains(AfterGroup(call.metadata_key), Colon \o TableOfCall[i][1])

\* C9: resolve leaves the `enabled` field of every DecoratorOptions of the store
\* and of the internal map as it was.
C9_ReadOnly == GotMetadata => enabled = call.before

====
